---------------------------- MODULE Spec2Model ----------------------------
(***************************************************************************)
(* A model of the persistent tag cache of the LITD userscript              *)
(* (class IndexedDBCache) and of the application that calls it (LITDApp).  *)
(*                                                                         *)
(* The cache sits on IndexedDB.  Every transaction of the script has the   *)
(* one object store as its scope, so the backend starts them in the order  *)
(* they were created: txq is that order and its head is the transaction    *)
(* that is running.  A request of a transaction ends with a success or an  *)
(* error event; a transaction whose requests succeeded ends with a         *)
(* complete event (its writes are durable) or an abort event (its writes   *)
(* are rolled back).                                                       *)
(*                                                                         *)
(* Time and sizes are scaled: the clock runs over 0..MaxTime and the       *)
(* program constants CACHE_EXPIRY_MS, MAX_CACHE_SIZE and MS_PER_DAY keep   *)
(* their role with small values.                                           *)
(***************************************************************************)
EXTENDS Integers, Sequences, FiniteSets, TLC

\* ------------------------------------------------------------- bounds
NumKeys == 3
MaxTime == 3
MaxQueue == 2
MaxCalls == 3
MaxRuns == 2
MaxLen == 3
MaxUrlLen == 5

\* -------------------------------------------------- program constants
\* CONFIG.CACHE_EXPIRY_MS (7 days), in clock units of the model.
CACHE_EXPIRY_MS == 2
\* CONFIG.MAX_CACHE_SIZE (5000), scaled.
MAX_CACHE_SIZE == 2
\* 1000 * 60 * 60 * 24 of getStats, in clock units of the model.
MS_PER_DAY == 2

\* Cache keys, `litd_<n>`; the integer stands for the key's rank in the
\* order IndexedDB gives to keys (used to break ties in the timestamp index).
Keys == 1..NumKeys
Times == 0..MaxTime

\* ------------------------------------------------------ pure functions
Whitespace == {" "}
NoElem == <<"#none">>

\* String.prototype.replace(/\s+/g, '_'): every maximal run of whitespace
\* becomes one underscore.
RECURSIVE ReplaceWs(_)
ReplaceWs(s) ==
    IF s = <<>> THEN <<>>
    ELSE IF Head(s) \in Whitespace
         THEN IF Len(s) > 1 /\ s[2] \in Whitespace
              THEN ReplaceWs(Tail(s))
              ELSE <<"_">> \o ReplaceWs(Tail(s))
         ELSE <<Head(s)>> \o ReplaceWs(Tail(s))

RECURSIVE TrimLeft(_)
TrimLeft(s) ==
    IF s # <<>> /\ Head(s) \in Whitespace THEN TrimLeft(Tail(s)) ELSE s

RECURSIVE TrimRight(_)
TrimRight(s) ==
    IF s # <<>> /\ s[Len(s)] \in Whitespace
    THEN TrimRight(SubSeq(s, 1, Len(s) - 1))
    ELSE s

\* String.prototype.trim()
Trim(s) == TrimLeft(TrimRight(s))

\* The name parseTagData gives a row: link.textContent.replace(..).trim()
TagName(text) == Trim(ReplaceWs(text))

\* One row of the response table: the text of its tag link and of its
\* confidence cell, NoElem when the row has no such element.
RowOk(row) == row.link # NoElem /\ row.conf # NoElem

RECURSIVE parseTagData(_)
parseTagData(html) ==
    IF html = <<>> THEN <<>>
    ELSE LET row == Head(html)
             rest == parseTagData(Tail(html))
         IN IF RowOk(row)
            THEN <<[name |-> TagName(row.link), confidence |-> Trim(row.conf)]>> \o rest
            ELSE rest

RECURSIVE SumEntrySizes(_)
SumEntrySizes(tags) ==
    IF tags = <<>> THEN 0
    ELSE 27 + Len(Head(tags).name) + Len(Head(tags).confidence)
         + SumEntrySizes(Tail(tags))

\* new Blob([JSON.stringify(tags)]).size for ASCII text:
\* [{"name":"..","confidence":".."},...]
calculateSize(tags) ==
    IF tags = <<>> THEN 2
    ELSE 2 + SumEntrySizes(tags) + (Len(tags) - 1)

\* The responses the tagging service is taken to give.
RowA == [link |-> <<"a">>, conf |-> <<"9">>]
RowB == [link |-> <<"b", " ", "c">>, conf |-> <<"5">>]
RowNoConf == [link |-> <<"a">>, conf |-> NoElem]
HtmlA == <<RowA>>
HtmlBA == <<RowB, RowNoConf, RowA>>
HtmlNoRows == <<RowNoConf>>
Htmls == {HtmlA, HtmlBA, HtmlNoRows}
NoHtml == <<>>

IsExpired(timestamp, t) == t - timestamp > CACHE_EXPIRY_MS

\* ---------------------------------------------------------- generateKey
\* A 32-bit integer in two's complement, held as <<high, low>> halves of
\* 16 bits each, so that every intermediate value stays a small integer.
Word == 65536
SignBit == 32768
Zero32 == <<0, 0>>

\* hash << 5
Shl5(h) ==
    LET lo == h[2] * 32
        hi == h[1] * 32 + lo \div Word
    IN <<hi % Word, lo % Word>>

\* a - b, wrapped to 32 bits
Sub32(a, b) ==
    LET lo == a[2] - b[2]
        hi == a[1] - b[1] - (IF lo < 0 THEN 1 ELSE 0)
    IN <<(hi + Word) % Word, (lo + Word) % Word>>

\* a + char for a UTF-16 code unit, wrapped to 32 bits
Add32(a, char) ==
    LET lo == a[2] + char
        hi == a[1] + lo \div Word
    IN <<hi % Word, lo % Word>>

\* One turn of the loop: hash = ((hash << 5) - hash) + char; hash & hash.
HashStep(hash, char) == Add32(Sub32(Shl5(hash), hash), char)

RECURSIVE HashFrom(_, _)
HashFrom(hash, url) ==
    IF url = <<>> THEN hash
    ELSE HashFrom(HashStep(hash, Head(url)), Tail(url))

\* A variant that keeps the sign of the hash.
Abs32Identity(h) == h

\* Math.abs(hash): the magnitude, as an unsigned number (2^31 for -2^31).
Abs32(h) == IF h[1] >= SignBit THEN Sub32(Zero32, h) ELSE h

\* `litd_${Math.abs(hash)}`
generateKey(url) == [prefix |-> "litd_", num |-> Abs32(HashFrom(Zero32, url))]

NoCacheKey == [prefix |-> "", num |-> Zero32]

\* Urls: strings of up to MaxUrlLen code units, among them the largest.
UrlChars == {47, 116, 65535}
Urls == UNION {[1..n -> UrlChars] : n \in 0..MaxUrlLen}

\* ------------------------------------------------ the eviction policy
\* The key that comes first in the timestamp index among ks: smallest
\* timestamp, ties broken by key (the index's order on equal index keys).
OldestKey(st, ks) ==
    CHOOSE k \in ks :
        \A j \in ks \ {k} :
            \/ st[k].timestamp < st[j].timestamp
            \/ st[k].timestamp = st[j].timestamp /\ k < j

RECURSIVE IndexOrder(_, _)
IndexOrder(st, ks) ==
    IF ks = {} THEN <<>>
    ELSE LET k == OldestKey(st, ks)
         IN <<k>> \o IndexOrder(st, ks \ {k})

\* index.openCursor(null, 'next') run to its end: allEntries, as keys.
AllEntries(st) == IndexOrder(st, DOMAIN st)

\* Variants of the forEach body that the eviction claims must tell apart
\* from the code's: the newest records marked instead of the oldest, one
\* record too few marked, and the age test left out.
MarkedNewestFirst(st, entries, i, t) ==
    LET record == st[entries[i + 1]]
        totalCount == Len(entries)
    IN IF IsExpired(record.timestamp, t) THEN TRUE
       ELSE totalCount > MAX_CACHE_SIZE /\ i >= MAX_CACHE_SIZE

MarkedOneShort(st, entries, i, t) ==
    LET record == st[entries[i + 1]]
        totalCount == Len(entries)
    IN IF IsExpired(record.timestamp, t) THEN TRUE
       ELSE totalCount > MAX_CACHE_SIZE /\ i < totalCount - MAX_CACHE_SIZE - 1

MarkedByCountOnly(st, entries, i, t) ==
    LET totalCount == Len(entries)
    IN totalCount > MAX_CACHE_SIZE /\ i < totalCount - MAX_CACHE_SIZE

\* A variant of the forEach body whose age test differs from the one of
\* get: a record is expired as soon as its age reaches the window.
MarkedAtWindow(st, entries, i, t) ==
    LET record == st[entries[i + 1]]
        totalCount == Len(entries)
    IN IF t - record.timestamp >= CACHE_EXPIRY_MS THEN TRUE
       ELSE totalCount > MAX_CACHE_SIZE /\ i < totalCount - MAX_CACHE_SIZE

\* The body of allEntries.forEach: whether the record at position i
\* (counted from 0, as in the code) is pushed onto toDelete.
Marked(st, entries, i, t) ==
    LET record == st[entries[i + 1]]
        totalCount == Len(entries)
    IN IF IsExpired(record.timestamp, t) THEN TRUE
       ELSE totalCount > MAX_CACHE_SIZE /\ i < totalCount - MAX_CACHE_SIZE

RECURSIVE MarkFrom(_, _, _, _)
MarkFrom(st, entries, i, t) ==
    IF i >= Len(entries) THEN <<>>
    ELSE (IF Marked(st, entries, i, t) THEN <<entries[i + 1]>> ELSE <<>>)
         \o MarkFrom(st, entries, i + 1, t)

\* toDelete of cleanupOldEntries for the snapshot st read at time t, in the
\* order the keys are pushed.
ToDelete(st, t) == MarkFrom(st, AllEntries(st), 0, t)

Range(s) == {s[i] : i \in 1..Len(s)}

\* The store after store.delete(key) for every key of a list.
Without(st, ks) == [k \in DOMAIN st \ ks |-> st[k]]

\* ------------------------------------------------------------ getStats
RECURSIVE SumSizes(_, _)
SumSizes(st, ks) ==
    IF ks = {} THEN 0
    ELSE LET k == CHOOSE x \in ks : TRUE
         IN st[k].size + SumSizes(st, ks \ {k})

RECURSIVE MinTimestamp(_, _, _)
MinTimestamp(st, ks, acc) ==
    IF ks = {} THEN acc
    ELSE LET k == CHOOSE x \in ks : TRUE
         IN MinTimestamp(st, ks \ {k},
                         IF st[k].timestamp < acc THEN st[k].timestamp ELSE acc)

\* (totalSize / 1024).toFixed(2), as hundredths of a KB.
ToFixed2KB(totalSize) == (totalSize * 100 + 512) \div 1024

\* A variant that reports the age of the oldest record in clock units
\* instead of whole days.
ScanStatsAgeInMs(st, t) ==
    [entries |-> Cardinality(DOMAIN st),
     totalSizeKB |-> ToFixed2KB(SumSizes(st, DOMAIN st)),
     kbIsText |-> TRUE,
     oldestEntryAge |-> t - MinTimestamp(st, DOMAIN st, t)]

\* What getStats resolves to after a full scan at time t.  kbIsText
\* records that toFixed made totalSizeKB a string.
ScanStats(st, t) ==
    [entries |-> Cardinality(DOMAIN st),
     totalSizeKB |-> ToFixed2KB(SumSizes(st, DOMAIN st)),
     kbIsText |-> TRUE,
     oldestEntryAge |-> (t - MinTimestamp(st, DOMAIN st, t)) \div MS_PER_DAY]

\* { entries: 0, totalSizeKB: 0, oldestEntryAge: 0 }
EmptyStats ==
    [entries |-> 0, totalSizeKB |-> 0, kbIsText |-> FALSE, oldestEntryAge |-> 0]

\* ----------------------------------------------------------------- state
VARIABLES
    dbState,   \* the open request / connection: opening, blocked, open,
               \* failed, closed
    store,     \* the object store: key -> record, for the keys present
    now,       \* Date.now()
    waiting,   \* calls suspended at `await this.initPromise`, oldest first
    txq,       \* transactions created and not finished, oldest first
    calls,     \* number of calls made through the public surface
    last,      \* the promise settled most recently, with what was logged
    fresh,     \* history: the set that resolved with nothing else in flight
    app        \* LITDApp and the page

vars == <<dbState, store, now, waiting, txq, calls, last, fresh, app>>

\* initPromise is not settled yet: the open request has fired neither
\* success nor error.
Pending == dbState \in {"opening", "blocked"}

BlankRec == [tags |-> <<>>, timestamp |-> 0, size |-> 0]
EmptyStore == [k \in {} |-> BlankRec]

\* A settled promise.  fault: the call went through a catch block or an
\* onerror handler.  tx: what had become of the call's transaction when the
\* promise settled: none was opened, it was still open, it completed or it
\* aborted.  null: a get resolved to null.  deleted: toDelete of a sweep.
\* by: 0 for a caller outside the script, -1 for a call the cache makes
\* itself, a run of processMedia otherwise.
Result(op, key, by, outcome, fault, tx) ==
    [tags |-> <<>>, timestamp |-> 0, op |-> op, key |-> key, by |-> by,
     outcome |-> outcome, fault |-> fault, tx |-> tx, null |-> FALSE,
     stats |-> EmptyStats, deleted |-> <<>>]

NoResult == Result("none", 0, 0, "none", FALSE, "none")

Call(op, key, html, by) == [html |-> html, op |-> op, key |-> key, by |-> by]

Tx(op, key, rec, by) ==
    [op |-> op, key |-> key, by |-> by, rec |-> rec, phase |-> "active"]

NoFresh == [tags |-> <<>>, timestamp |-> 0, key |-> 0]

\* A variant without the catch block: the rejection of initPromise reaches
\* the caller.
CaughtResultRethrown(c) ==
    Result(c.op, c.key, c.by, "rejected", TRUE, "none")

\* What a call resolves to from its catch block when initPromise rejected.
CaughtResult(c) ==
    LET r == Result(c.op, c.key, c.by, "resolved", TRUE, "none")
    IN IF c.op = "get" THEN [r EXCEPT !.null = TRUE] ELSE r

\* The record `set` builds.
NewRecord(tags, t) ==
    [tags |-> tags, timestamp |-> t, size |-> calculateSize(tags)]

\* A variant of set whose clock runs backwards.
TxOfClockReversed(c, t) ==
    IF c.op = "set"
    THEN Tx("put", c.key, NewRecord(parseTagData(c.html), MaxTime - t), c.by)
    ELSE Tx(c.op, c.key, BlankRec, c.by)

\* The transaction a call creates once initPromise has resolved.
TxOf(c, t) ==
    IF c.op = "set"
    THEN Tx("put", c.key, NewRecord(parseTagData(c.html), t), c.by)
    ELSE Tx(c.op, c.key, BlankRec, c.by)

\* A variant that stores the record whatever was parsed.
SkipsStoreNever(c) == FALSE

\* A variant that returns early only for a response without any row.
SkipsStoreIfNoRows(c) == c.op = "set" /\ c.html = <<>>

\* `set` returns before opening a transaction when no tag was parsed.
SkipsStore(c) == c.op = "set" /\ parseTagData(c.html) = <<>>

\* LITDApp.  pc: initialize awaits initPromise (start), awaits getStats
\* (stats), has set the timer or the click listener (ready), or has caught
\* an error (failed).  run[i]: where run i of processMedia stands.
\* columns, errors, requests count the "Suggested Tags" columns inserted,
\* the errors shown and the requests sent to the tagging service.
Runs == 1..MaxRuns
AppKey == 1
InitCaller == -2

NoApp ==
    [url |-> <<>>, page |-> "none", pc |-> "off", timer |-> FALSE,
     listener |-> FALSE, run |-> [i \in Runs |-> "idle"], columns |-> 0,
     errors |-> 0, requests |-> 0, cacheKey |-> NoCacheKey]

\* handleCachedTags / handleTaggingResponse: the column is inserted.
Rendered(a, i) ==
    [a EXCEPT !.run[i] = "done", !.columns = a.columns + 1]

\* The catch block of processMedia: UIManager.showError.
Failed(a, i) ==
    [a EXCEPT !.run[i] = "error", !.errors = a.errors + 1]

\* sendForTagging: the POST is sent.
Sent(a, i) ==
    [a EXCEPT !.run[i] = "tagging", !.requests = a.requests + 1]

\* The rest of LITDApp.initialize once getStats has resolved.
Started(a) ==
    [a EXCEPT !.pc = "ready",
              !.timer = (a.page = "uploads"),
              !.listener = (a.page = "post")]

\* A variant of processMedia that sends the request whatever the cache
\* returned.
DeliverIgnoringCache(r) ==
    IF r.by = InitCaller
    THEN IF r.outcome = "resolved" THEN Started(app)
         ELSE [app EXCEPT !.pc = "failed"]
    ELSE IF r.by \in Runs
    THEN IF r.outcome = "rejected" THEN Failed(app, r.by)
         ELSE IF r.op = "get" THEN Sent(app, r.by)
         ELSE Rendered(app, r.by)
    ELSE app

\* The continuation of the caller that awaits the settled promise r.
Deliver(r) ==
    IF r.by = InitCaller
    THEN IF r.outcome = "resolved" THEN Started(app)
         ELSE [app EXCEPT !.pc = "failed"]
    ELSE IF r.by \in Runs
    THEN IF r.outcome = "rejected" THEN Failed(app, r.by)
         ELSE IF r.op = "get"
         THEN IF ~r.null /\ r.tags # <<>>
              THEN Rendered(app, r.by)
              ELSE Sent(app, r.by)
         ELSE Rendered(app, r.by)
    ELSE app

Settle(r) ==
    /\ last' = r
    /\ app' = Deliver(r)

\* The continuation of a call after `await this.initPromise`; q is the
\* transaction queue it finds.
Begin(c, q) ==
    CASE dbState = "failed" ->
           /\ Settle(CaughtResult(c))
           /\ txq' = q
      [] SkipsStore(c) ->
           /\ Settle(Result("set", c.key, c.by, "resolved", FALSE, "none"))
           /\ txq' = q
      [] dbState = "closed" ->
           \* this.db.transaction throws inside the promise executor: the
           \* promise is rejected, and `return` hands it to the caller.
           /\ Settle(Result(c.op, c.key, c.by, "rejected", TRUE, "none"))
           /\ txq' = q
      [] OTHER ->
           /\ txq' = Append(q, TxOf(c, now))
           /\ UNCHANGED <<last, app>>

Init ==
    /\ dbState = "opening"
    /\ store = EmptyStore
    /\ now = 0
    /\ waiting = <<>>
    /\ txq = <<>>
    /\ calls = 0
    /\ last = NoResult
    /\ fresh = NoFresh
    /\ app = NoApp

\* ------------------------------------------------------- initialization
\* request.onsuccess of indexedDB.open
OpenSuccess ==
    /\ Pending
    /\ dbState' = "open"
    /\ UNCHANGED <<store, now, waiting, txq, calls, last, fresh, app>>

\* request.onerror of indexedDB.open
OpenError ==
    /\ Pending
    /\ dbState' = "failed"
    /\ UNCHANGED <<store, now, waiting, txq, calls, last, fresh, app>>

\* The open request is blocked: another tab holds a connection of an older
\* DB_VERSION and has not closed it.  initialize sets no onblocked handler,
\* so nothing happens until the request fires success or error.
OpenBlocked ==
    /\ dbState = "opening"
    /\ dbState' = "blocked"
    /\ UNCHANGED <<store, now, waiting, txq, calls, last, fresh, app>>

\* The browser closes the connection (site data cleared, storage fault);
\* every later this.db.transaction throws InvalidStateError.
ForceClose ==
    /\ dbState = "open"
    /\ waiting = <<>>
    /\ dbState' = "closed"
    /\ UNCHANGED <<store, now, waiting, txq, calls, last, fresh, app>>

\* A variant in which a call does not wait for initPromise.
ResumeEager ==
    /\ waiting # <<>>
    /\ Begin(Head(waiting), txq)
    /\ waiting' = Tail(waiting)
    /\ fresh' = IF Head(waiting).op = "get" THEN fresh ELSE NoFresh
    /\ UNCHANGED <<dbState, store, now, calls>>

\* The oldest suspended call resumes once initPromise is settled.
Resume ==
    /\ ~Pending
    /\ waiting # <<>>
    /\ Begin(Head(waiting), txq)
    /\ waiting' = Tail(waiting)
    /\ fresh' = IF Head(waiting).op = "get" THEN fresh ELSE NoFresh
    /\ UNCHANGED <<dbState, store, now, calls>>

\* ------------------------------------------------------ the public calls
\* A call runs up to `await this.initPromise`.  While the database is
\* opening the calls pile up; afterwards the continuation of a call runs
\* before any other event.
Invoke(c) ==
    /\ Len(waiting) < MaxQueue
    /\ ~Pending => waiting = <<>> /\ Len(txq) < MaxQueue
    /\ waiting' = Append(waiting, c)

ApiCall(c) ==
    /\ calls < MaxCalls
    /\ calls' = calls + 1
    /\ Invoke(c)
    /\ UNCHANGED <<dbState, store, now, txq, last, fresh, app>>

GetCall == \E k \in Keys : ApiCall(Call("get", k, NoHtml, 0))

SetCall == \E k \in Keys, h \in Htmls : ApiCall(Call("set", k, h, 0))

DeleteCall == \E k \in Keys : ApiCall(Call("delete", k, NoHtml, 0))

ClearCall == ApiCall(Call("clear", 0, NoHtml, 0))

StatsCall == ApiCall(Call("stats", 0, NoHtml, 0))

\* Date.now() advances.
Tick ==
    /\ now < MaxTime
    /\ waiting = <<>> \/ Pending
    /\ now' = now + 1
    /\ UNCHANGED <<dbState, store, waiting, txq, calls, last, fresh, app>>

\* --------------------------------------------------- the running transaction
Running(op, phase) ==
    /\ waiting = <<>>
    /\ txq # <<>>
    /\ Head(txq).op = op
    /\ Head(txq).phase = phase

Done(h, fault, tx) == Result(h.op, h.key, h.by, "resolved", fault, tx)

\* A variant of get that leaves the expired record alone.
SpawnDeleteOmitted(q, key) == q

\* this.delete(key) of get, started and not awaited: its continuation runs
\* right after the handler and queues a delete transaction.
SpawnDelete(q, key) == Append(q, Tx("delete", key, BlankRec, -1))

\* get: request.onsuccess
GetOk ==
    /\ Running("get", "active")
    /\ dbState = "open"
    /\ LET h == Head(txq)
           r == Done(h, FALSE, "complete")
       IN IF h.key \notin DOMAIN store
          THEN /\ Settle([r EXCEPT !.null = TRUE])
               /\ txq' = Tail(txq)
               /\ fresh' = fresh
          ELSE IF IsExpired(store[h.key].timestamp, now)
          THEN /\ Settle([r EXCEPT !.null = TRUE])
               /\ txq' = SpawnDelete(Tail(txq), h.key)
               /\ fresh' = NoFresh
          ELSE /\ Settle([r EXCEPT !.tags = store[h.key].tags])
               /\ txq' = Tail(txq)
               /\ fresh' = fresh
    /\ UNCHANGED <<dbState, store, now, waiting, calls>>

\* get: request.onerror
GetError ==
    /\ Running("get", "active")
    /\ Settle([Done(Head(txq), TRUE, "abort") EXCEPT !.null = TRUE])
    /\ txq' = Tail(txq)
    /\ UNCHANGED <<dbState, store, now, waiting, calls, fresh>>

\* A variant of set that starts the sweep from request.onsuccess, before
\* the transaction has completed.
PutOkSweepsEarly ==
    /\ Running("put", "active")
    /\ dbState = "open"
    /\ LET h == Head(txq)
       IN /\ Settle([Result("set", h.key, h.by, "resolved", FALSE, "open") EXCEPT
                        !.tags = h.rec.tags, !.timestamp = h.rec.timestamp])
          /\ txq' = (<<[h EXCEPT !.phase = "done"]>> \o Tail(txq))
                        \o <<Tx("cleanup", 0, BlankRec, -1)>>
          /\ fresh' = NoFresh
    /\ UNCHANGED <<dbState, store, now, waiting, calls>>

\* set: request.onsuccess of store.put resolves the promise; the
\* transaction is still to complete.
PutOk ==
    /\ Running("put", "active")
    /\ dbState = "open"
    /\ LET h == Head(txq)
       IN /\ Settle([Result("set", h.key, h.by, "resolved", FALSE, "open") EXCEPT
                        !.tags = h.rec.tags, !.timestamp = h.rec.timestamp])
          /\ txq' = <<[h EXCEPT !.phase = "done"]>> \o Tail(txq)
          /\ fresh' = IF Len(txq) = 1
                      THEN [tags |-> h.rec.tags,
                            timestamp |-> h.rec.timestamp, key |-> h.key]
                      ELSE NoFresh
    /\ UNCHANGED <<dbState, store, now, waiting, calls>>

\* set: request.onerror of store.put rejects the promise, which `set`
\* has returned without awaiting it; the transaction aborts.
PutError ==
    /\ Running("put", "active")
    /\ LET h == Head(txq)
       IN Settle(Result("set", h.key, h.by, "rejected", TRUE, "abort"))
    /\ txq' = Tail(txq)
    /\ UNCHANGED <<dbState, store, now, waiting, calls, fresh>>

\* A variant that updates the tags of an existing record in place.
PutTagsOnly(st, key, rec) ==
    [k \in DOMAIN st \cup {key} |->
        IF k # key THEN st[k]
        ELSE IF key \in DOMAIN st THEN [st[k] EXCEPT !.tags = rec.tags]
        ELSE rec]

\* The store after store.put(record).
Put(st, key, rec) ==
    [k \in DOMAIN st \cup {key} |-> IF k = key THEN rec ELSE st[k]]

\* set: transaction.oncomplete; the record is durable and the sweep starts.
PutCommit ==
    /\ Running("put", "done")
    /\ dbState = "open"
    /\ LET h == Head(txq)
       IN /\ store' = Put(store, h.key, h.rec)
          /\ Begin(Call("cleanup", 0, NoHtml, -1), Tail(txq))
    /\ UNCHANGED <<dbState, now, waiting, calls, fresh>>

\* set: the transaction aborts when it commits (quota, I/O); the code has
\* no handler for it, the record is not written and no sweep starts.
PutAbort ==
    /\ Running("put", "done")
    /\ txq' = Tail(txq)
    /\ UNCHANGED <<dbState, store, now, waiting, calls, last, fresh, app>>

\* delete: request.onsuccess and the transaction completes
DeleteOk ==
    /\ Running("delete", "active")
    /\ dbState = "open"
    /\ store' = Without(store, {Head(txq).key})
    /\ Settle(Done(Head(txq), FALSE, "complete"))
    /\ txq' = Tail(txq)
    /\ UNCHANGED <<dbState, now, waiting, calls, fresh>>

\* delete: request.onerror (fault), or request.onsuccess and then an abort
DeleteError ==
    /\ Running("delete", "active")
    /\ \E fault \in BOOLEAN : Settle(Done(Head(txq), fault, "abort"))
    /\ txq' = Tail(txq)
    /\ UNCHANGED <<dbState, store, now, waiting, calls, fresh>>

\* clearAll: request.onsuccess and the transaction completes
ClearOk ==
    /\ Running("clear", "active")
    /\ dbState = "open"
    /\ store' = EmptyStore
    /\ Settle(Done(Head(txq), FALSE, "complete"))
    /\ txq' = Tail(txq)
    /\ UNCHANGED <<dbState, now, waiting, calls, fresh>>

\* clearAll: request.onerror (fault), or request.onsuccess and then an abort
ClearError ==
    /\ Running("clear", "active")
    /\ \E fault \in BOOLEAN : Settle(Done(Head(txq), fault, "abort"))
    /\ txq' = Tail(txq)
    /\ UNCHANGED <<dbState, store, now, waiting, calls, fresh>>

\* getStats: the cursor reaches its end
StatsOk ==
    /\ Running("stats", "active")
    /\ dbState = "open"
    /\ Settle([Done(Head(txq), FALSE, "complete") EXCEPT
                  !.stats = ScanStats(store, now)])
    /\ txq' = Tail(txq)
    /\ UNCHANGED <<dbState, store, now, waiting, calls, fresh>>

\* getStats: request.onerror
StatsError ==
    /\ Running("stats", "active")
    /\ Settle(Done(Head(txq), TRUE, "abort"))
    /\ txq' = Tail(txq)
    /\ UNCHANGED <<dbState, store, now, waiting, calls, fresh>>

\* cleanupOldEntries: the cursor reaches its end, the marked keys are
\* deleted in the same transaction, and it completes.
CleanupOk ==
    /\ Running("cleanup", "active")
    /\ dbState = "open"
    /\ LET toDelete == ToDelete(store, now)
       IN /\ store' = Without(store, Range(toDelete))
          /\ Settle([Done(Head(txq), FALSE, "complete") EXCEPT
                        !.deleted = toDelete])
    /\ txq' = Tail(txq)
    /\ UNCHANGED <<dbState, now, waiting, calls, fresh>>

\* cleanupOldEntries: request.onerror of the cursor; nothing is deleted.
CleanupError ==
    /\ Running("cleanup", "active")
    /\ Settle(Done(Head(txq), TRUE, "abort"))
    /\ txq' = Tail(txq)
    /\ UNCHANGED <<dbState, store, now, waiting, calls, fresh>>

\* cleanupOldEntries: the keys are marked and the promise resolved, then a
\* store.delete fails or the commit does: the error has no handler, the
\* transaction aborts and every deletion of the sweep is rolled back.
CleanupAbort ==
    /\ Running("cleanup", "active")
    /\ dbState = "open"
    /\ ToDelete(store, now) # <<>>
    /\ Settle([Done(Head(txq), FALSE, "abort") EXCEPT
                  !.deleted = ToDelete(store, now)])
    /\ txq' = Tail(txq)
    /\ UNCHANGED <<dbState, store, now, waiting, calls, fresh>>

CacheStep ==
    \/ OpenSuccess \/ OpenError \/ OpenBlocked \/ ForceClose \/ Resume
    \/ GetOk \/ GetError
    \/ PutOk \/ PutError \/ PutCommit \/ PutAbort
    \/ DeleteOk \/ DeleteError
    \/ ClearOk \/ ClearError
    \/ StatsOk \/ StatsError
    \/ CleanupOk \/ CleanupError \/ CleanupAbort

Next ==
    \/ CacheStep
    \/ GetCall \/ SetCall \/ DeleteCall \/ ClearCall \/ StatsCall
    \/ Tick

Spec == Init /\ [][Next]_vars

\* What the browser's scheduling guarantees: an open request fires a first
\* event (success, error or blocked), a suspended call resumes once
\* initPromise is settled, and the oldest transaction delivers its next
\* event.  Nothing guarantees that a blocked open request is ever unblocked.
OpenEvent == dbState = "opening" /\ (OpenSuccess \/ OpenError \/ OpenBlocked)

TxEvent ==
    \/ GetOk \/ GetError
    \/ PutOk \/ PutError \/ PutCommit \/ PutAbort
    \/ DeleteOk \/ DeleteError
    \/ ClearOk \/ ClearError
    \/ StatsOk \/ StatsError
    \/ CleanupOk \/ CleanupError \/ CleanupAbort

FairSpec ==
    /\ Init
    /\ [][Next]_vars
    /\ WF_vars(OpenEvent)
    /\ WF_vars(Resume)
    /\ WF_vars(TxEvent)

\* ------------------------------------------------------------- LITDApp
AppInit ==
    /\ dbState = "opening"
    /\ store = EmptyStore
    /\ now = 0
    /\ waiting = <<>>
    /\ txq = <<>>
    /\ calls = 0
    /\ last = NoResult
    /\ fresh = NoFresh
    /\ \E page \in {"uploads", "post"} :
          app = [NoApp EXCEPT !.page = page, !.pc = "start"]

\* A call of the cache made by the script itself.
AppCall(c) ==
    /\ Invoke(c)
    /\ UNCHANGED <<dbState, store, now, txq, calls, last, fresh>>

\* LITDApp.initialize after `await cacheManager.initPromise`: getStats is
\* called when the promise resolved, the catch block runs when it rejected.
AppInitialize ==
    /\ app.pc = "start"
    /\ ~Pending
    /\ IF dbState = "failed"
       THEN /\ app' = [app EXCEPT !.pc = "failed"]
            /\ UNCHANGED <<dbState, store, now, waiting, txq, calls, last, fresh>>
       ELSE /\ app' = [app EXCEPT !.pc = "stats"]
            /\ AppCall(Call("stats", 0, NoHtml, InitCaller))

\* processMedia starts: the media element is found and the progress shown;
\* prepareMediaData fetches the blob.
StartRun(a, i) == [a EXCEPT !.run[i] = "prepare"]

\* The timer set on an uploads page fires after INIT_DELAY.
TimerFires ==
    /\ app.timer
    /\ app' = StartRun([app EXCEPT !.timer = FALSE], 1)
    /\ UNCHANGED <<dbState, store, now, waiting, txq, calls, last, fresh>>

\* UIManager.tagColumnExists
tagColumnExists(a) == a.columns > 0

\* editLink.onclick
EditClick ==
    /\ app.listener
    /\ IF tagColumnExists(app)
       THEN UNCHANGED app
       ELSE \E i \in Runs :
               /\ app.run[i] = "idle"
               /\ \A j \in Runs : j < i => app.run[j] # "idle"
               /\ app' = StartRun(app, i)
    /\ UNCHANGED <<dbState, store, now, waiting, txq, calls, last, fresh>>

\* prepareMediaData resolves: the cache is asked first.
BlobLoaded ==
    \E i \in Runs :
        /\ app.run[i] = "prepare"
        /\ app' = [app EXCEPT !.run[i] = "get"]
        /\ AppCall(Call("get", AppKey, NoHtml, i))

\* prepareMediaData rejects (HTTP status, network, video frame).
BlobFailed ==
    \E i \in Runs :
        /\ app.run[i] = "prepare"
        /\ app' = Failed(app, i)
        /\ UNCHANGED <<dbState, store, now, waiting, txq, calls, last, fresh>>

\* onload of the tagging request with a 2xx status: the response is cached
\* before it is rendered.
TaggingLoaded ==
    \E i \in Runs, h \in Htmls :
        /\ app.run[i] = "tagging"
        /\ app' = [app EXCEPT !.run[i] = "set"]
        /\ AppCall(Call("set", AppKey, h, i))

\* onload with another status, or onerror: sendForTagging rejects.
TaggingFailed ==
    \E i \in Runs :
        /\ app.run[i] = "tagging"
        /\ app' = Failed(app, i)
        /\ UNCHANGED <<dbState, store, now, waiting, txq, calls, last, fresh>>

AppStep ==
    \/ AppInitialize \/ TimerFires \/ EditClick
    \/ BlobLoaded \/ BlobFailed
    \/ TaggingLoaded \/ TaggingFailed

\* The cache is also reachable from the console (window.LITD_CacheManager),
\* where it can be cleared while the script runs.
AppNext == AppStep \/ CacheStep \/ ClearCall \/ Tick

AppSpec == AppInit /\ [][AppNext]_vars

\* ------------------------------------------- the legacy script (LITD 1.0)
\* The first version of the script keeps its cache in the userscript
\* storage (GM.getValue / GM.setValue): under the key of the media a JSON
\* text of {timestamp, data}, data being the raw response of the tagging
\* service.  The storage outlives the page, so a page load may find an
\* entry of an earlier visit.  run[i] of the legacy script: the timer of
\* init is pending (scheduled), the blob is fetched (fetch), cache.get is
\* awaited (lookup), the POST is under way (posted), the column is in the
\* page (done), or the run ended without one (quiet).
LEGACY_CACHE_EXPIRY_MS == 2

\* Response texts: the empty text and one with tag rows.
LegacyTexts == {"", "rows"}

LegacyEntry(t, text) == [timestamp |-> t, data |-> text]

\* What an earlier visit may have left under the key.
LegacyStores ==
    {EmptyStore} \cup
    {[k \in {AppKey} |-> LegacyEntry(0, text)] : text \in LegacyTexts}

\* app.init: no cache to open; the timer is set or the listener installed.
LegacyInit ==
    /\ dbState = "none"
    /\ store \in LegacyStores
    /\ now = 0
    /\ waiting = <<>>
    /\ txq = <<>>
    /\ calls = 0
    /\ last = NoResult
    /\ fresh = NoFresh
    /\ \E page \in {"uploads", "post"} :
          app = [NoApp EXCEPT !.page = page, !.pc = "legacy",
                              !.run[1] = IF page = "uploads" THEN "scheduled"
                                         ELSE "idle"]

\* setTimeout(() => this.processMedia(), 500) fires.
LegacyTimerFires ==
    /\ app.pc = "legacy"
    /\ app.run[1] = "scheduled"
    /\ app' = [app EXCEPT !.run[1] = "fetch"]
    /\ UNCHANGED <<dbState, store, now, waiting, txq, calls, last, fresh>>

\* editLink.onclick of the legacy script
LegacyEditClick ==
    /\ app.pc = "legacy"
    /\ app.page = "post"
    /\ IF tagColumnExists(app)
       THEN UNCHANGED app
       ELSE \E i \in Runs :
               /\ app.run[i] = "idle"
               /\ \A j \in Runs : j < i => app.run[j] # "idle"
               /\ app' = [app EXCEPT !.run[i] = "fetch"]
    /\ UNCHANGED <<dbState, store, now, waiting, txq, calls, last, fresh>>

\* utils.fetchBlob resolves: cache.get(cacheKey) is awaited.
LegacyBlobLoaded ==
    \E i \in Runs :
        /\ app.pc = "legacy"
        /\ app.run[i] = "fetch"
        /\ app' = [app EXCEPT !.run[i] = "lookup"]
        /\ UNCHANGED <<dbState, store, now, waiting, txq, calls, last, fresh>>

\* utils.fetchBlob rejects: the catch block hides the progress panel.
LegacyBlobFailed ==
    \E i \in Runs :
        /\ app.pc = "legacy"
        /\ app.run[i] = "fetch"
        /\ app' = [app EXCEPT !.run[i] = "quiet"]
        /\ UNCHANGED <<dbState, store, now, waiting, txq, calls, last, fresh>>

\* cache.get of the legacy script: the data of an entry younger than the
\* window, null otherwise ("" stands for null: both are falsy).
LegacyGet(st, key, t) ==
    IF key \in DOMAIN st /\ t - st[key].timestamp < LEGACY_CACHE_EXPIRY_MS
    THEN st[key].data
    ELSE ""

\* `if (cached)` of processMedia
LegacyUsesCache(cached) == cached # ""

\* cache.get resolves and processMedia goes on: a truthy value is rendered
\* (handleResponse), otherwise the POST is sent.  An entry found too old
\* is overwritten with null by cache.get.
LegacyLookup ==
    \E i \in Runs :
        /\ app.pc = "legacy"
        /\ app.run[i] = "lookup"
        /\ LET cached == LegacyGet(store, AppKey, now)
               stale == /\ AppKey \in DOMAIN store
                        /\ now - store[AppKey].timestamp >= LEGACY_CACHE_EXPIRY_MS
           IN /\ store' = IF stale THEN Without(store, {AppKey}) ELSE store
              /\ app' = IF LegacyUsesCache(cached)
                        THEN [app EXCEPT !.run[i] = "done",
                                         !.columns = app.columns + 1]
                        ELSE [app EXCEPT !.run[i] = "posted",
                                         !.requests = app.requests + 1]
        /\ UNCHANGED <<dbState, now, waiting, txq, calls, last, fresh>>

\* onload of the POST, whatever the status: the response text is stored
\* and then rendered.
LegacyTaggingLoaded ==
    \E i \in Runs, text \in LegacyTexts :
        /\ app.pc = "legacy"
        /\ app.run[i] = "posted"
        /\ store' = Put(store, AppKey, LegacyEntry(now, text))
        /\ app' = [app EXCEPT !.run[i] = "done", !.columns = app.columns + 1]
        /\ UNCHANGED <<dbState, now, waiting, txq, calls, last, fresh>>

\* onerror of the POST: the progress panel is hidden.
LegacyTaggingFailed ==
    \E i \in Runs :
        /\ app.pc = "legacy"
        /\ app.run[i] = "posted"
        /\ app' = [app EXCEPT !.run[i] = "quiet"]
        /\ UNCHANGED <<dbState, store, now, waiting, txq, calls, last, fresh>>

LegacyStep ==
    \/ LegacyTimerFires \/ LegacyEditClick
    \/ LegacyBlobLoaded \/ LegacyBlobFailed
    \/ LegacyLookup
    \/ LegacyTaggingLoaded \/ LegacyTaggingFailed

\* A page load runs one of the two versions of the script: the current one
\* with its IndexedDB cache, or the legacy one.
ScriptsInit == AppInit \/ LegacyInit

ScriptsNext ==
    \/ AppStep
    \/ OpenSuccess \/ OpenError \/ OpenBlocked \/ ForceClose \/ Resume
    \/ GetOk \/ GetError
    \/ PutOk \/ PutError \/ PutCommit \/ PutAbort
    \/ DeleteOk \/ DeleteError
    \/ StatsOk \/ StatsError
    \/ CleanupOk \/ CleanupError \/ CleanupAbort
    \/ LegacyStep
    \/ Tick

ScriptsSpec == ScriptsInit /\ [][ScriptsNext]_vars

\* ------------------------------------------------- parsing a response
\* Responses of one row whose link text is any text of up to MaxLen
\* characters, letters and blanks, or whose link or confidence cell is
\* missing; and the response without rows.
Chars == {"a", " "}
Texts == UNION {[1..n -> Chars] : n \in 0..MaxLen}
ParseRows ==
    [link : Texts \cup {NoElem}, conf : {<<"9">>, <<"9", " ">>, NoElem}]
ParseHtmls == {<<row>> : row \in ParseRows} \cup {<<>>}

\* The database is open and one set of a response is under way.
ParseInit ==
    /\ dbState = "open"
    /\ store = EmptyStore
    /\ now = 0
    /\ \E k \in Keys, h \in ParseHtmls : waiting = <<Call("set", k, h, 0)>>
    /\ txq = <<>>
    /\ calls = 1
    /\ last = NoResult
    /\ fresh = NoFresh
    /\ app = NoApp

ParseNext == Resume \/ PutOk \/ PutCommit \/ CleanupOk

ParseSpec == ParseInit /\ [][ParseNext]_vars

\* ------------------------------------------------- deriving a cache key
\* processMedia runs on a post page for a media element of some url.
KeyInit ==
    /\ dbState = "open"
    /\ store = EmptyStore
    /\ now = 0
    /\ waiting = <<>>
    /\ txq = <<>>
    /\ calls = 0
    /\ last = NoResult
    /\ fresh = NoFresh
    /\ \E u \in Urls :
          app = [NoApp EXCEPT !.page = "post", !.pc = "ready",
                              !.listener = TRUE, !.run[1] = "prepare",
                              !.url = u]

\* prepareMediaData: cacheKey: cacheManager.generateKey(url)
PrepareKey ==
    /\ app.run[1] = "prepare"
    /\ app' = [app EXCEPT !.run[1] = "keyed",
                          !.cacheKey = generateKey(app.url)]
    /\ UNCHANGED <<dbState, store, now, waiting, txq, calls, last, fresh>>

KeyNext == PrepareKey

KeySpec == KeyInit /\ [][KeyNext]_vars

\* ------------------------------------------------------- steps, by shape
\* The step in which the running transaction of a call ends or, for a put,
\* moves on: no other step changes txq while that transaction is its head.
Ends(op) == Running(op, "active") /\ txq' # txq

GetOkStep == Ends("get") /\ last'.tx = "complete"

PutOkStep == Ends("put") /\ Len(txq') = Len(txq)

PutCommitStep ==
    /\ Running("put", "done")
    /\ Len(txq') = Len(txq)
    /\ txq' # txq

SweepStep == Ends("cleanup") /\ ~last'.fault

SweepCompletes == SweepStep /\ last'.tx = "complete"

\* The continuation of the oldest suspended call runs in this step.
Resumes == ~Pending /\ waiting # <<>> /\ waiting' = Tail(waiting)

Count(st) == Cardinality(DOMAIN st)

Idle == txq = <<>> /\ waiting = <<>>

\* ---------------------------------------------------------------- claims

\* C1: every public cache method returns a promise that resolves and never
\* rejects, whatever the storage does.  Stated as: no settled promise of the
\* cache is a rejected one.
C1_NeverRejects == last.outcome # "rejected"

\* C2: after set(k, html) has resolved with a non-empty tag list and
\* nothing else in flight, a get(k) issued next (only the set's own sweep
\* between them, the record still within the expiry window) returns exactly
\* the tags parsed from html.
C2_FreshSurvives ==
    [][(/\ GetOkStep
        /\ fresh.key = Head(txq).key
        /\ ~IsExpired(fresh.timestamp, now))
       => (~last'.null /\ last'.tags = fresh.tags)]_vars

\* The cleanup delete that a get started ends in this step.
CleanupDeleteEnds == Ends("delete") /\ Head(txq).by = -1

GetOnExpiredStep ==
    /\ GetOkStep
    /\ Head(txq).key \in DOMAIN store
    /\ IsExpired(store[Head(txq).key].timestamp, now)

\* C3 as claimed: a get that finds a record older than CACHE_EXPIRY_MS
\* resolves to null, and the record under its key is gone once the delete
\* that the get started has run.
C3_ExpiredRemoved ==
    [][/\ GetOnExpiredStep => last'.null
       /\ CleanupDeleteEnds => Head(txq).key \notin DOMAIN store']_vars

\* C3 amended: a get that finds a record older than CACHE_EXPIRY_MS
\* resolves to null and starts a delete of its key that it does not await;
\* the record is gone when that delete's transaction completes (and stays
\* when the delete request fails or the transaction aborts).
C3_ExpiredCleanupStarted ==
    [][/\ GetOnExpiredStep =>
            /\ last'.null
            /\ last'.outcome = "resolved"
            /\ txq' = Append(Tail(txq), Tx("delete", Head(txq).key, BlankRec, -1))
       /\ (CleanupDeleteEnds /\ last'.tx = "complete") =>
            Head(txq).key \notin DOMAIN store']_vars

C3_Witness ==
    /\ last.op = "delete"
    /\ last.by = -1
    /\ last.tx = "complete"
    /\ last.key \notin DOMAIN store

NoneExpired(st, t) == \A k \in DOMAIN st : ~IsExpired(st[k].timestamp, t)

DistinctTimestamps(st) ==
    \A j, k \in DOMAIN st : j # k => st[j].timestamp # st[k].timestamp

\* The n records with the largest timestamps.
NewestKeys(st, n) ==
    {k \in DOMAIN st :
        Cardinality({j \in DOMAIN st : st[j].timestamp > st[k].timestamp}) < n}

\* C4: when the store holds N + k records, none expired and no two with
\* the same timestamp, and MAX_CACHE_SIZE = N, a sweep that runs to its end
\* deletes exactly the k records with the smallest timestamps and keeps the
\* N newest unchanged.
C4_CapacityEviction ==
    [][(/\ SweepCompletes
        /\ NoneExpired(store, now)
        /\ DistinctTimestamps(store))
       => LET keep == NewestKeys(store, MAX_CACHE_SIZE)
          IN /\ DOMAIN store' = keep
             /\ \A k \in keep : store'[k] = store[k]
             /\ Range(last'.deleted) = DOMAIN store \ keep
             /\ Len(last'.deleted) = Count(store) - Cardinality(keep)]_vars

\* The scenario of the claim, in clock units: A at 0, B at 1, C at 2 with
\* MAX_CACHE_SIZE = 2; the sweep after C has deleted A and kept B and C.
C4_Witness ==
    /\ MAX_CACHE_SIZE = 2
    /\ last.op = "cleanup"
    /\ last.tx = "complete"
    /\ last.deleted = <<1>>
    /\ DOMAIN store = {2, 3}
    /\ store[2].timestamp = 1
    /\ store[3].timestamp = 2
    /\ now = 2

\* C5 as claimed: once no sweep and no write is in flight, the store holds
\* at most MAX_CACHE_SIZE records.
C5_BoundWhenIdle == Idle => Count(store) <= MAX_CACHE_SIZE

\* C5 amended: after every sweep that runs to its end the store holds at
\* most MAX_CACHE_SIZE records, and the number of records grows only when
\* a put commits; a sweep whose cursor fails or whose transaction aborts
\* leaves the excess in place until a later sweep completes.
C5_BoundAfterSweep ==
    [][/\ SweepCompletes => Count(store') <= MAX_CACHE_SIZE
       /\ Count(store') > Count(store) =>
            PutCommitStep /\ Count(store') = Count(store) + 1]_vars

C5_Witness ==
    /\ Idle
    /\ last.op = "cleanup"
    /\ last.tx = "complete"
    /\ last.deleted # <<>>
    /\ Count(store) = MAX_CACHE_SIZE

\* A set whose html yields no tag row resumes in this step.
EmptySetResumes ==
    /\ Resumes
    /\ dbState = "open"
    /\ Head(waiting).op = "set"
    /\ parseTagData(Head(waiting).html) = <<>>

\* C6 as claimed: after set(k, html) where html yields no tag, no record
\* exists under k, whatever the store held before.
C6_NoRecordAfterEmptySet ==
    [][EmptySetResumes => Head(waiting).key \notin DOMAIN store']_vars

\* C6 amended: set(k, html) where html yields no tag resolves without
\* opening a transaction and leaves the store as it was: a key without a
\* record still has none, a key with a record keeps it.
C6_EmptySetIsNoOp ==
    [][EmptySetResumes =>
          /\ store' = store
          /\ txq' = txq
          /\ last'.op = "set"
          /\ last'.outcome = "resolved"
          /\ last'.tx = "none"]_vars

C6_Witness ==
    /\ last.op = "set"
    /\ last.outcome = "resolved"
    /\ last.tx = "none"
    /\ ~last.fault
    /\ last.key \in DOMAIN store
    /\ store[last.key].tags # <<>>

ExpiredKeys(st, t) == {k \in DOMAIN st : IsExpired(st[k].timestamp, t)}

\* The oldest count - MAX_CACHE_SIZE records of the snapshot.
OverCapacityKeys(st) ==
    LET entries == AllEntries(st)
    IN {entries[i] : i \in 1..(Len(entries) - MAX_CACHE_SIZE)}

NoDuplicates(s) == \A i, j \in 1..Len(s) : i # j => s[i] # s[j]

\* C7: for every snapshot a sweep reads, the keys it marks are the union of
\* the expired records and the oldest count - MAX_CACHE_SIZE records, each
\* marked once; a sweep that runs to its end deletes those and no others.
C7_UnionSemantics ==
    [][SweepStep =>
          LET union == ExpiredKeys(store, now) \cup OverCapacityKeys(store)
          IN /\ Range(last'.deleted) = union
             /\ NoDuplicates(last'.deleted)
             /\ last'.tx = "complete" =>
                  /\ DOMAIN store' = DOMAIN store \ union
                  /\ \A k \in DOMAIN store' : store'[k] = store[k]]_vars

\* A sweep over three records has deleted two: one lay over the capacity,
\* so the other was deleted for its age alone and the first, older still,
\* met both criteria.
C7_Witness ==
    /\ last.op = "cleanup"
    /\ last.tx = "complete"
    /\ Len(last.deleted) = 2
    /\ Count(store) = 1
    /\ MAX_CACHE_SIZE = 2

\* C8: once opening the database has failed, every cache call resolves to
\* its empty default and opens no transaction: get to null, getStats to
\* zeros, set, delete and clearAll to nothing; the store is not touched.
C8_StorageUnavailable ==
    [][dbState = "failed" =>
          /\ txq' = <<>>
          /\ store' = store
          /\ Resumes =>
               /\ last'.op = Head(waiting).op
               /\ last'.outcome = "resolved"
               /\ last'.tx = "none"
               /\ last'.tags = <<>>
               /\ last'.stats = EmptyStats
               /\ last'.null = (Head(waiting).op = "get")]_vars

C8_Witness ==
    /\ dbState = "failed"
    /\ last.op = "stats"
    /\ last.outcome = "resolved"
    /\ calls = MaxCalls

\* C9: when the cache database cannot be opened, the application still
\* processes the media: once initialize has dealt with the failed open, the
\* timer of an uploads page is set (or its run has started) or the click
\* listener of a post page is installed.
C9_RunsWithoutCache ==
    (dbState = "failed" /\ app.pc # "start") =>
        \/ app.timer
        \/ app.listener
        \/ \E i \in Runs : app.run[i] # "idle"

\* C10: when the promise of a set with a non-empty tag list resolves, its
\* record is durably in the store, and the sweep of that set starts no
\* earlier than the commit.
C10_DurableBeforeResolve ==
    [][/\ PutOkStep =>
            /\ Head(txq).key \in DOMAIN store'
            /\ store'[Head(txq).key] = Head(txq).rec
       /\ (\E i \in 1..Len(txq') : txq'[i].op = "cleanup"
           /\ ~\E j \in 1..Len(txq) : txq[j].op = "cleanup") => PutCommitStep]_vars

\* C11: the database is opened once (the open request, once it has fired
\* success or error, is never pending again and a failed open is not
\* retried); a call issued before the open completes neither settles nor
\* opens a transaction while initPromise is pending; and no transaction
\* exists while the connection handle is null (pending or failed open).
C11_SharedOneShotInit ==
    [][/\ ~Pending => ~Pending'
       /\ dbState = "failed" => dbState' = "failed"
       /\ Pending' => (txq' = <<>> /\ last'.outcome = "none" /\ Len(waiting') >= Len(waiting))
       /\ dbState' = "failed" => txq' = <<>>
       /\ (Pending /\ dbState' = "open") => waiting' = waiting]_vars

\* Two calls issued before the open completed have both gone through the
\* same resolved initPromise and opened their transactions.
C11_Witness ==
    /\ dbState = "open"
    /\ now = 0
    /\ calls = 2
    /\ waiting = <<>>
    /\ Len(txq) = 2
    /\ \A i \in 1..2 : txq[i].phase = "active" /\ txq[i].by = 0

\* C12: every call of the cache eventually settles, whatever the open
\* request and the transactions do: whenever calls are suspended or
\* transactions unfinished, a state with neither follows.
C12_EveryCallSettles == ~Idle ~> Idle

\* C13: when the deletion of a key marked by cleanupOldEntries fails, the
\* sweep still resolves without error and every other marked key is
\* deleted: of the marked keys at most the one whose deletion failed is
\* left in the store.
C13_FailedDeleteSkipped ==
    [][(Ends("cleanup") /\ ~last'.fault /\ last'.tx = "abort") =>
          /\ last'.outcome = "resolved"
          /\ Cardinality(Range(last'.deleted) \cap DOMAIN store') <= 1]_vars

C15_NoEmptyRecord ==
    [][/\ \A k \in DOMAIN store' : Len(store'[k].tags) >= 1
       /\ EmptySetResumes =>
             /\ store' = store
             /\ txq' = txq]_vars

\* An empty set has resolved on a store that holds records, with no
\* transaction left.
C15_Witness ==
    /\ last.op = "set"
    /\ last.outcome = "resolved"
    /\ last.tx = "none"
    /\ ~last.fault
    /\ dbState = "open"
    /\ Count(store) = 2
    /\ txq = <<>>

\* The rows of a response that parseTagData keeps, in order.
KeptRows(html) == SelectSeq(html, RowOk)

\* A set that stores a record resumes in this step: its transaction is the
\* one added to the queue.
StoringSetResumes ==
    /\ Resumes
    /\ Head(waiting).op = "set"
    /\ Len(txq') = Len(txq) + 1

\* C16: the name parseTagData gives a tag is the link text with its
\* leading and trailing whitespace removed and every whitespace run that
\* is left replaced by one underscore.
C16_NameNormalized ==
    [][StoringSetResumes =>
          LET rows == KeptRows(Head(waiting).html)
              tags == txq'[Len(txq')].rec.tags
          IN /\ Len(tags) = Len(rows)
             /\ \A i \in 1..Len(tags) :
                    tags[i].name = ReplaceWs(Trim(rows[i].link))]_vars

\* C17: every tag of every stored record has a non-empty name.
C17_NamesNonEmpty ==
    \A k \in DOMAIN store :
        \A i \in 1..Len(store[k].tags) : store[k].tags[i].name # <<>>

\* A getStats whose scan ran to its end resolves in this step.
StatsScanStep == Ends("stats") /\ ~last'.fault

\* What C18 says of entries, of oldestEntryAge and of the store: the count
\* of the records scanned, the whole days since the smallest timestamp
\* (0 for an empty store, never negative), and the store left as it was.
StatsCountAndAge ==
    LET st == last'.stats
    IN /\ st.entries = Count(store)
       /\ st.oldestEntryAge >= 0
       /\ store = EmptyStore => st.oldestEntryAge = 0
       /\ \A k \in DOMAIN store :
             (\A j \in DOMAIN store : store[k].timestamp <= store[j].timestamp)
             => /\ st.oldestEntryAge * MS_PER_DAY <= now - store[k].timestamp
                /\ now - store[k].timestamp < (st.oldestEntryAge + 1) * MS_PER_DAY
       /\ store' = store

\* C18 as claimed: totalSizeKB equals the sum of the size fields divided
\* by 1024 (totalSizeKB is held in hundredths of a KB).
C18_StatsExact ==
    [][StatsScanStep =>
          /\ StatsCountAndAge
          /\ last'.stats.totalSizeKB * 1024 = SumSizes(store, DOMAIN store) * 100]_vars

\* C18 amended: totalSizeKB is the decimal text of the sum of the size
\* fields divided by 1024, rounded to the nearest hundredth (a half rounds
\* up).
C18_StatsRounded ==
    [][StatsScanStep =>
          LET sum == SumSizes(store, DOMAIN store)
              kb == last'.stats.totalSizeKB
          IN /\ StatsCountAndAge
             /\ last'.stats.kbIsText
             /\ kb * 1024 - 512 <= sum * 100
             /\ sum * 100 < kb * 1024 + 512]_vars

\* getStats has scanned two records, the older at least one day old.
C18_Witness ==
    /\ last.op = "stats"
    /\ last.tx = "complete"
    /\ last.stats.entries = 2
    /\ last.stats.oldestEntryAge >= 1
    /\ last.stats.totalSizeKB > 0

\* h := 31 * h + charCode, wrapped to 32 bits.
Mul31Add(h, char) ==
    LET lo == h[2] * 31 + char
        hi == h[1] * 31 + lo \div Word
    IN <<hi % Word, lo % Word>>

RECURSIVE RollingHash(_, _)
RollingHash(h, url) ==
    IF url = <<>> THEN h
    ELSE RollingHash(Mul31Add(h, Head(url)), Tail(url))

\* The magnitude of a 32-bit integer in two's complement.
Magnitude(h) ==
    IF h[1] < SignBit THEN h
    ELSE IF h[2] = 0 THEN <<Word - h[1], 0>>
    ELSE <<Word - 1 - h[1], Word - h[2]>>

\* C19: the key of a url is 'litd_' followed by the absolute value of the
\* 32-bit wrapped rolling hash h := 31 * h + charCode over its characters;
\* the number lies in 0..2^31, and the empty string gives litd_0.
C19_KeyDerivation ==
    app.run[1] = "keyed" =>
        LET num == app.cacheKey.num
        IN /\ app.cacheKey.prefix = "litd_"
           /\ num = Magnitude(RollingHash(Zero32, app.url))
           /\ num[1] < SignBit \/ num = <<SignBit, 0>>
           /\ app.url = <<>> => num = Zero32

\* The key of a url of full length whose hash wrapped to a negative
\* number has been derived.
C19_Witness ==
    /\ app.run[1] = "keyed"
    /\ Len(app.url) = MaxUrlLen
    /\ HashFrom(Zero32, app.url)[1] >= SignBit

DeleteResumes == Resumes /\ Head(waiting).op = "delete"

\* The sweeps among the transactions of q.
Sweeps(q) == Len(SelectSeq(q, LAMBDA t : t.op = "cleanup"))

\* C21: delete(k) that runs to its end removes the record under k and
\* changes no other record; on an absent key it leaves the store unchanged
\* (so a second delete(k) changes nothing); delete starts no sweep; and
\* every delete resolves, whether its request succeeds or not and whatever
\* the state of the connection.
C21_DeleteIdempotentLocal ==
    [][/\ Ends("delete") =>
            LET k == Head(txq).key
            IN /\ last'.outcome = "resolved"
               /\ Sweeps(txq') <= Sweeps(txq)
               /\ \A j \in DOMAIN store \ {k} :
                     j \in DOMAIN store' /\ store'[j] = store[j]
               /\ DOMAIN store' \subseteq DOMAIN store
               /\ last'.tx = "complete" => k \notin DOMAIN store'
               /\ k \notin DOMAIN store => store' = store
       /\ DeleteResumes =>
            /\ Sweeps(txq') <= Sweeps(txq)
            /\ store' = store
            /\ \/ Len(txq') = Len(txq) + 1
               \/ /\ last'.op = "delete"
                  /\ last'.outcome = "resolved"]_vars

\* C22: the delete that a get started after it found an expired record
\* under k never removes a record under k that is within the expiry
\* window, however the get is interleaved with sets of the same key.
C22_CleanupDeleteOnlyExpired ==
    [][CleanupDeleteEnds =>
          LET k == Head(txq).key
          IN (k \in DOMAIN store /\ ~IsExpired(store[k].timestamp, now)) =>
                (k \in DOMAIN store' /\ store'[k] = store[k])]_vars

\* C23: a sweep is started exactly once for each set whose put transaction
\* completes, and in the step in which it completes: the commit of a put
\* (of a record with at least one tag) queues one sweep behind every
\* transaction already created, and no other step starts a sweep: not a
\* set without tags, not a put that fails or aborts, not get, delete,
\* getStats or clearAll.
C23_SweepTriggering ==
    [][/\ Sweeps(txq') > Sweeps(txq) => PutCommitStep
       /\ (Running("put", "done") /\ store' # store) => PutCommitStep
       /\ PutCommitStep =>
            LET h == Head(txq)
            IN /\ h.rec.tags # <<>>
               /\ store'[h.key] = h.rec
               /\ txq' = Append(Tail(txq), Tx("cleanup", 0, BlankRec, -1))
               /\ Sweeps(txq') = Sweeps(txq) + 1]_vars

\* Two sets have committed one after the other and the sweep of each is
\* queued.
C23_Witness ==
    /\ Len(txq) = 2
    /\ Sweeps(txq) = 2
    /\ last.op = "set"
    /\ last.tx = "open"
    /\ last.key \in DOMAIN store
    /\ store[last.key].tags = last.tags

\* The records of the put transactions of q that are still to commit, in
\* the order in which their transactions were created.
Puts(q) ==
    LET p == SelectSeq(q, LAMBDA t : t.op = "put")
    IN [i \in 1..Len(p) |-> [key |-> p[i].key, rec |-> p[i].rec]]

\* Sets are serialized in the order of their calls: a set joins the
\* suspended calls and then the transactions behind every earlier one, the
\* put that commits is the oldest one, and what it leaves in the store
\* under its key is its own record.
SetsInCallOrder ==
    /\ Len(waiting') > Len(waiting) =>
          waiting' = Append(waiting, waiting'[Len(waiting')])
    /\ StoringSetResumes =>
          LET c == Head(waiting)
          IN /\ Len(Puts(txq')) = Len(Puts(txq)) + 1
             /\ Puts(txq') =
                   Append(Puts(txq), [key |-> c.key,
                                      rec |-> txq'[Len(txq')].rec])
             /\ txq'[Len(txq')].rec.tags = parseTagData(c.html)
    /\ ~StoringSetResumes =>
          \/ Puts(txq') = Puts(txq)
          \/ /\ Running("put", "active") \/ Running("put", "done")
             /\ Puts(txq') = Tail(Puts(txq))
    /\ PutCommitStep =>
          /\ Puts(txq') = Tail(Puts(txq))
          /\ store'[Head(txq).key].tags = Head(txq).rec.tags

\* C24: sets of one key take effect in the order of their calls, so that
\* after two of them have completed the record holds the tags of the
\* second; and a get(k) issued after set(k, h) has resolved (no other
\* write since) that returns tags returns those of h, never older ones.
C24_SameKeySerialized ==
    [][/\ SetsInCallOrder
       /\ (/\ GetOkStep
           /\ fresh # NoFresh
           /\ fresh.key = Head(txq).key
           /\ ~last'.null)
          => /\ last'.tags = fresh.tags
             /\ store[fresh.key].timestamp = fresh.timestamp]_vars

\* The age of the record under k at the current time.
Age(k) == now - store[k].timestamp

\* C25: get and the sweep treat a record as expired exactly when its age
\* is strictly greater than CACHE_EXPIRY_MS: a get that finds a record
\* resolves to null exactly then and returns its tags otherwise; a sweep
\* marks every such record, and marks a record of smaller or equal age
\* only for lying over the capacity.  So at the time of a step no record
\* is served by get and expired by the sweep, or the reverse.
C25_SameExpiryPredicate ==
    [][/\ (GetOkStep /\ Head(txq).key \in DOMAIN store) =>
            LET k == Head(txq).key
            IN /\ last'.null <=> Age(k) > CACHE_EXPIRY_MS
               /\ ~last'.null => last'.tags = store[k].tags
       /\ SweepStep =>
            \A k \in DOMAIN store :
               /\ Age(k) > CACHE_EXPIRY_MS => k \in Range(last'.deleted)
               /\ (Age(k) <= CACHE_EXPIRY_MS /\ k \notin OverCapacityKeys(store))
                     => k \notin Range(last'.deleted)]_vars

\* A sweep over two records, within the capacity, has deleted the one
\* older than the window and kept the one whose age equals the window.
C25_Witness ==
    /\ last.op = "cleanup"
    /\ last.tx = "complete"
    /\ Len(last.deleted) = 1
    /\ Count(store) = 1
    /\ MAX_CACHE_SIZE >= 2
    /\ \A k \in DOMAIN store : Age(k) = CACHE_EXPIRY_MS

\* Run i of processMedia leaves `await cacheManager.set(...)` in this step:
\* the cache write made for a 2xx response of the tagging service settles.
CacheWriteSettles(i) == app.run[i] = "set" /\ app'.run[i] # "set"

\* C26: a 2xx response of the tagging service is always rendered: when the
\* cache write made for it settles, whatever its outcome, the run inserts
\* the suggested-tags column and shows no error.
C26_ResponseAlwaysRendered ==
    [][\A i \in Runs :
          CacheWriteSettles(i) =>
             /\ app'.run[i] = "done"
             /\ app'.columns = app.columns + 1
             /\ app'.errors = app.errors]_vars

\* Run i of processMedia leaves `await cacheManager.get(cacheKey)` in this
\* step; the legacy run i leaves `await cache.get(cacheKey)`.
LookupSettles(i) == app.run[i] = "get" /\ app'.run[i] # "get"

LegacyLookupSettles(i) ==
    /\ app.pc = "legacy"
    /\ app.run[i] = "lookup"
    /\ app'.run[i] # "lookup"

\* The lookup of run i returned a non-empty cached value.
LookupHits(i) ==
    /\ LookupSettles(i)
    /\ last'.op = "get"
    /\ last'.by = i
    /\ last'.outcome = "resolved"
    /\ ~last'.null
    /\ last'.tags # <<>>

LegacyLookupHits(i) ==
    /\ LegacyLookupSettles(i)
    /\ AppKey \in DOMAIN store
    /\ now - store[AppKey].timestamp < LEGACY_CACHE_EXPIRY_MS
    /\ store[AppKey].data # ""

\* The entry the lookup of run i looked for is absent, expired or empty.
NoUsableEntry(i) ==
    /\ LookupSettles(i)
    /\ txq # <<>>
    /\ Head(txq).by = i
    /\ LET k == Head(txq).key
       IN \/ k \notin DOMAIN store
          \/ Age(k) > CACHE_EXPIRY_MS
          \/ store[k].tags = <<>>

LegacyNoUsableEntry(i) ==
    /\ LegacyLookupSettles(i)
    /\ \/ AppKey \notin DOMAIN store
       \/ now - store[AppKey].timestamp >= LEGACY_CACHE_EXPIRY_MS
       \/ store[AppKey].data = ""

\* Reading the entry failed and the lookup of run i resolved to null.
LookupFailed(i) ==
    /\ LookupSettles(i)
    /\ last'.op = "get"
    /\ last'.by = i
    /\ last'.fault
    /\ last'.null

\* In both versions a lookup that returns a non-empty value renders it,
\* sends no request and writes nothing to the cache, in that step or later
\* in the run; and the cache is written for a run only on the response to
\* its request.
HitSkipsTagging ==
    \A i \in Runs :
       /\ (LookupHits(i) \/ LegacyLookupHits(i)) =>
             /\ app'.run[i] = "done"
             /\ app'.columns = app.columns + 1
             /\ app'.requests = app.requests
             /\ store' = store
             /\ waiting' = waiting
             /\ Puts(txq') = Puts(txq)
       /\ app.run[i] = "done" => app'.run[i] = "done"
       /\ (app'.run[i] = "set" /\ app.run[i] # "set") => app.run[i] = "tagging"
       /\ (app.pc = "legacy" /\ store' # store) =>
             \E j \in Runs : app.run[j] \in {"lookup", "posted"}
                             /\ app'.run[j] # app.run[j]
                             /\ ~LegacyLookupHits(j)

\* C27 as claimed: a cache hit avoids the tagging call, and a request is
\* sent only when the entry is absent, expired or empty.
C27_RequestOnlyWithoutEntry ==
    [][/\ HitSkipsTagging
       /\ app'.requests > app.requests =>
             /\ app'.requests = app.requests + 1
             /\ \E i \in Runs : NoUsableEntry(i) \/ LegacyNoUsableEntry(i)]_vars

\* C27 amended: a cache hit avoids the tagging call, and a request is sent
\* only when the lookup returned nothing usable: the entry is absent,
\* expired or empty, or (in the current version) reading it failed.
C27_HitAvoidsRequest ==
    [][/\ HitSkipsTagging
       /\ app'.requests > app.requests =>
             /\ app'.requests = app.requests + 1
             /\ \E i \in Runs :
                   \/ NoUsableEntry(i)
                   \/ LookupFailed(i)
                   \/ LegacyNoUsableEntry(i)]_vars

\* A run of the current version has rendered the cached tags that an
\* earlier run stored: no request beyond that of the earlier run.
C27_Witness ==
    /\ app.pc = "ready"
    /\ last.op = "get"
    /\ last.by \in Runs
    /\ ~last.null
    /\ last.tags # <<>>
    /\ app.run[last.by] = "done"
    /\ app.requests = 1

\* The runs of processMedia whose request to the tagging service is in
\* flight.
InFlight == {i \in Runs : app.run[i] = "tagging"}

\* C28: whatever the sequence and timing of the clicks on the edit link,
\* at most one "Suggested Tags" column is ever inserted into the page and
\* at most one request to the tagging service is in flight at a time.
C28_AtMostOnePanel ==
    /\ app.columns <= 1
    /\ Cardinality(InFlight) <= 1

=============================================================================
